---- MODULE Spec2Model ----
(***************************************************************************)
(* Key-rotation engine of openai-admin-cli (src/openai_admin/commands/     *)
(* rotation.py) over the REST client of src/openai_admin/client.py.        *)
(*                                                                         *)
(* A service-account name is a sequence of one-character strings, so that  *)
(* the name generator (strftime) and the date parser (two anchored         *)
(* regular expressions followed by datetime(...)) are separate             *)
(* computations.  The remote project is the sequence of service accounts   *)
(* the list endpoint returns; every command invocation works on its own    *)
(* listing of it.                                                          *)
(***************************************************************************)
EXTENDS Integers, Sequences, FiniteSets, TLC

(* ------------------------------ bounds ------------------------------- *)

\* service accounts named after the rotated prefix that the project holds
\* before the first invocation
MaxAccounts == 2

\* REST calls of one invocation that fail
MaxFaults == 1

\* invocations of the notification wrapper in one process, nested or in
\* sequence
MaxCalls == 2

(* ------------------------- characters, dates ------------------------- *)

DigitChars == <<"0", "1", "2", "3", "4", "5", "6", "7", "8", "9">>

IsDigit(c) == \E i \in 1..10 : DigitChars[i] = c

\* int() of one decimal digit
DigitVal(c) == (CHOOSE i \in 1..10 : DigitChars[i] = c) - 1

\* int() of a sequence of decimal digits
RECURSIVE IntOf(_)
IntOf(ds) ==
    IF ds = <<>> THEN 0
    ELSE 10 * IntOf(SubSeq(ds, 1, Len(ds) - 1)) + DigitVal(ds[Len(ds)])

\* strftime zero-padded fields: %y and %m and %d are two digits, %Y four
Fmt2(n) == <<DigitChars[((n \div 10) % 10) + 1], DigitChars[(n % 10) + 1]>>

Fmt4(n) == Fmt2(n \div 100) \o Fmt2(n % 100)

Dash == <<"-">>

IsLeap(y) == (y % 4 = 0) /\ ((y % 100 # 0) \/ (y % 400 = 0))

DaysInMonth(y, m) ==
    IF m = 2 THEN (IF IsLeap(y) THEN 29 ELSE 28)
    ELSE IF m \in {4, 6, 9, 11} THEN 30 ELSE 31

\* mutant of ValidDate: every month has 31 days
ValidDateAnyDay(y, m, d) ==
    /\ y \in 1..9999
    /\ m \in 1..12
    /\ d \in 1..31

\* datetime(year, month, day) raises ValueError outside these ranges
ValidDate(y, m, d) ==
    /\ y \in 1..9999
    /\ m \in 1..12
    /\ d \in 1..DaysInMonth(y, m)

\* the value the parser returns when the name carries no date
NoDate == [y |-> 0, m |-> 0, d |-> 0]

MkDate(y, m, d) == [y |-> y, m |-> m, d |-> d]

\* datetime ordering restricted to calendar dates (year, month, day)
DateKey(dt) == dt.y * 10000 + dt.m * 100 + dt.d

DateLess(a, b) == DateKey(a) < DateKey(b)

AllDigits(s) == \A i \in 1..Len(s) : IsDigit(s[i])

(* ----------------------- _parse_service_account_date ----------------- *)

\* re.match(^prefix-(\d{4})-(\d{2})-(\d{2})$, name)
MatchFull(name, prefix) ==
    LET L == Len(prefix) IN
    /\ Len(name) = L + 11
    /\ SubSeq(name, 1, L) = prefix
    /\ name[L + 1] = "-"
    /\ AllDigits(SubSeq(name, L + 2, L + 5))
    /\ name[L + 6] = "-"
    /\ AllDigits(SubSeq(name, L + 7, L + 8))
    /\ name[L + 9] = "-"
    /\ AllDigits(SubSeq(name, L + 10, L + 11))

\* re.match(^prefix-(\d{2})-(\d{2})$, name)
MatchShort(name, prefix) ==
    LET L == Len(prefix) IN
    /\ Len(name) = L + 6
    /\ SubSeq(name, 1, L) = prefix
    /\ name[L + 1] = "-"
    /\ AllDigits(SubSeq(name, L + 2, L + 3))
    /\ name[L + 4] = "-"
    /\ AllDigits(SubSeq(name, L + 5, L + 6))

\* mutant of ParseDate: a two-digit year is taken as 19YY
ParseDateLastCentury(name, prefix) ==
    LET L == Len(prefix) IN
    IF MatchFull(name, prefix)
    THEN LET y == IntOf(SubSeq(name, L + 2, L + 5))
             m == IntOf(SubSeq(name, L + 7, L + 8))
             d == IntOf(SubSeq(name, L + 10, L + 11))
         IN  IF ValidDate(y, m, d) THEN MkDate(y, m, d) ELSE NoDate
    ELSE IF MatchShort(name, prefix)
    THEN LET y == 1900 + IntOf(SubSeq(name, L + 2, L + 3))
             m == IntOf(SubSeq(name, L + 5, L + 6))
         IN  IF ValidDate(y, m, 1) THEN MkDate(y, m, 1) ELSE NoDate
    ELSE NoDate

ParseDate(name, prefix) ==
    LET L == Len(prefix) IN
    IF MatchFull(name, prefix)
    THEN LET y == IntOf(SubSeq(name, L + 2, L + 5))
             m == IntOf(SubSeq(name, L + 7, L + 8))
             d == IntOf(SubSeq(name, L + 10, L + 11))
         IN  IF ValidDate(y, m, d) THEN MkDate(y, m, d) ELSE NoDate
    ELSE IF MatchShort(name, prefix)
    THEN LET y == 2000 + IntOf(SubSeq(name, L + 2, L + 3))
             m == IntOf(SubSeq(name, L + 5, L + 6))
         IN  IF ValidDate(y, m, 1) THEN MkDate(y, m, 1) ELSE NoDate
    ELSE NoDate

(* --------------------- _find_matching_service_accounts --------------- *)

Candidate(sa, prefix) ==
    [id |-> sa.id, name |-> sa.name, date |-> ParseDate(sa.name, prefix)]

\* mutant of Matching: every account of the listing is a candidate
MatchingAll(accounts, prefix) ==
    [i \in 1..Len(accounts) |-> Candidate(accounts[i], prefix)]

\* the loop of lines 88-99: the accounts the parser accepts, in input order
RECURSIVE Matching(_, _)
Matching(accounts, prefix) ==
    IF accounts = <<>> THEN <<>>
    ELSE LET sa == Head(accounts)
             rest == Matching(Tail(accounts), prefix)
         IN  IF ParseDate(sa.name, prefix) # NoDate
             THEN <<Candidate(sa, prefix)>> \o rest
             ELSE rest

\* mutant of InsertDesc: x goes before the entries of its own date
InsertDescBeforeEqual(sorted, x) ==
    LET n == Cardinality({i \in 1..Len(sorted) : DateLess(x.date, sorted[i].date)})
    IN  SubSeq(sorted, 1, n) \o <<x>> \o SubSeq(sorted, n + 1, Len(sorted))

\* where list.sort(key=date, reverse=True) puts x among the already sorted
\* entries: after every entry whose date is not older (the sort is stable)
InsertDesc(sorted, x) ==
    LET n == Cardinality({i \in 1..Len(sorted) :
                            ~DateLess(sorted[i].date, x.date)})
    IN  SubSeq(sorted, 1, n) \o <<x>> \o SubSeq(sorted, n + 1, Len(sorted))

\* mutant of SortDesc: the candidates stay in input order
SortNone(cands) == cands

RECURSIVE SortDesc(_)
SortDesc(cands) ==
    IF cands = <<>> THEN <<>>
    ELSE InsertDesc(SortDesc(SubSeq(cands, 1, Len(cands) - 1)), cands[Len(cands)])

FindMatching(accounts, prefix) == SortDesc(Matching(accounts, prefix))

(* -------------------------- name generation -------------------------- *)

\* f"{prefix}-{today.strftime('%y-%m')}" or f"{prefix}-{today.strftime('%Y-%m-%d')}"
NewSaName(prefix, date_fmt, today) ==
    IF date_fmt = "YY-MM"
    THEN prefix \o Dash \o Fmt2(today.y % 100) \o Dash \o Fmt2(today.m)
    ELSE prefix \o Dash \o Fmt4(today.y) \o Dash \o Fmt2(today.m)
                \o Dash \o Fmt2(today.d)

(* ------------------------------ REST client --------------------------- *)

\* OpenAIAdminClient._request: the call returns the decoded body ("ok"),
\* re-raises requests.HTTPError ("http_error", and "not_found" for a 404),
\* or, on any other exception (connection, timeout, undecodable body),
\* prints and calls sys.exit(1) inside the client ("transport_error")
Outcomes == {"ok", "http_error", "not_found", "transport_error"}

\* the call raised an exception an `except Exception` clause catches
Raises(o) == o \in {"http_error", "not_found"}

\* the call raised SystemExit, which no `except Exception` clause catches
Exits(o) == o = "transport_error"

NoName == <<>>

ListCall(o) == [kind |-> "list", id |-> 0, name |-> NoName, outcome |-> o]

CreateCall(name, o) == [kind |-> "create", id |-> 0, name |-> name, outcome |-> o]

DeleteCall(sa, o) == [kind |-> "delete", id |-> sa.id, name |-> sa.name, outcome |-> o]

Failures == Outcomes \ {"ok"}

\* the outcomes of the calls of one rotation unit, by position in issue
\* order: at most `most` of its n calls fail
Plans(n, most) ==
    UNION {{[k \in 1..n |-> IF k \in at THEN how[k] ELSE "ok"] :
                how \in [at -> Failures]} :
            at \in {a \in SUBSET (1..n) : Cardinality(a) <= most}}

(* ------------------------------ delete loops -------------------------- *)

\* for sa in dels: ... client.delete_project_service_account(project_id, sa['id'])
\* k is the position in the plan of the next call.  catches: the call sits in
\* try/except Exception (cleanup_old_keys 440-445, execute_rotation 633-637)
\* or not (_execute_cleanup 1104).  Result: the calls issued, how many items
\* were reported deleted, and how the loop was left.
RECURSIVE DeleteLoop(_, _, _, _, _)
DeleteLoop(dels, plan, k, dry_run, catches) ==
    IF dels = <<>> THEN [calls |-> <<>>, deleted |-> 0, end |-> "return"]
    ELSE IF dry_run
    THEN LET rest == DeleteLoop(Tail(dels), plan, k, dry_run, catches)
         IN  [rest EXCEPT !.deleted = @ + 1]
    ELSE LET o == plan[k]
             call == DeleteCall(Head(dels), o)
         IN  IF Exits(o)
             THEN [calls |-> <<call>>, deleted |-> 0, end |-> "exit1"]
             ELSE IF Raises(o) /\ ~catches
             THEN [calls |-> <<call>>, deleted |-> 0, end |-> "raise"]
             ELSE LET rest == DeleteLoop(Tail(dels), plan, k + 1, dry_run, catches)
                  IN  [calls |-> <<call>> \o rest.calls,
                       deleted |-> rest.deleted + (IF o = "ok" THEN 1 ELSE 0),
                       end |-> rest.end]

(* ------------------------------ Python slices ------------------------- *)

\* the index a slice bound k denotes in a list of length n (negative bounds
\* count from the end, every bound is clamped to 0..n)
SliceIndex(n, k) ==
    IF k < 0 THEN (IF n + k < 0 THEN 0 ELSE n + k)
    ELSE (IF k > n THEN n ELSE k)

\* lst[:k]
SliceTo(lst, k) == SubSeq(lst, 1, SliceIndex(Len(lst), k))

\* lst[k:]
SliceFrom(lst, k) == SubSeq(lst, SliceIndex(Len(lst), k) + 1, Len(lst))

(* ------------------------------ rotation units ------------------------ *)

\* One rotation unit: the options it ran with (cfg), what it computed, the
\* REST calls it issued in order, what it reported, and how control left it:
\* "return", "raise" (an exception left the function) or "exit1" (sys.exit(1)).
\* new_api_key_value is the local of that name, "unbound" until assigned;
\* notified holds the messages handed to MattermostNotifier.send_to_user.
NoUnit(cfg) ==
    [cfg |-> cfg, listed |-> FALSE, snapshot |-> <<>>, matching |-> <<>>,
     new_sa_name |-> NoName, calls |-> <<>>, created |-> FALSE,
     skipped |-> FALSE, nothing |-> FALSE, cancelled |-> FALSE,
     to_delete |-> <<>>, deleted |-> 0, end |-> "return",
     new_api_key_value |-> "unbound", notified |-> <<>>]

\* the credential a unit holds after its create step: the placeholder of a
\* dry run, the value of the api_key the server returned, or None
DummyKey == "sk-proj-dummy-key-for-dry-run"

RealKey == "sk-proj-real"

\* the message of a rotation unit: recipient, service account, credential
Message(user, name, key) == [user |-> user, name |-> name, key |-> key]

\* mutant of SendNotification: a dry run notifies like a real run
SendNotificationAlways(u) ==
    IF u.cfg.notify_user # "" /\ u.new_api_key_value \notin {"None", "unbound"}
    THEN [u EXCEPT !.notified =
            <<Message(u.cfg.notify_user, u.new_sa_name, u.new_api_key_value)>>]
    ELSE u

\* "Send notification if configured" (create_rotation_key 250-297,
\* execute_rotation 643-687): if notify_user_id and new_api_key_value, a dry
\* run only says so and a real run calls send_to_user, whose failure is
\* caught and reported
SendNotification(u) ==
    IF u.cfg.notify_user # "" /\ u.new_api_key_value \notin {"None", "unbound"}
    THEN IF u.cfg.dry_run THEN u
         ELSE [u EXCEPT !.notified =
                 <<Message(u.cfg.notify_user, u.new_sa_name, u.new_api_key_value)>>]
    ELSE u

\* if not config.get('project_id') / if not config.get('prefix'): sys.exit(1)
MissingParameter(cfg) == cfg.project_id = "" \/ cfg.prefix = <<>>

\* mutant of NameExists: all(...) where the code has any(...)
NameExistsAll(matching, name) == \A i \in 1..Len(matching) : matching[i].name = name

\* any(sa['name'] == new_sa_name for sa in matching_accounts)
NameExists(matching, name) == \E i \in 1..Len(matching) : matching[i].name = name

\* the unit after a listing that succeeded
Listed(accounts, cfg) ==
    [NoUnit(cfg) EXCEPT !.listed = TRUE, !.snapshot = accounts,
                        !.matching = FindMatching(accounts, cfg.prefix),
                        !.calls = <<ListCall("ok")>>]

\* mutant of CreateRotationKey: the new key replaces the matching ones
CreateRotationKeyReplacing(accounts, cfg, plan, today) ==
    IF MissingParameter(cfg) THEN [NoUnit(cfg) EXCEPT !.end = "exit1"]
    ELSE IF plan[1] # "ok"
    THEN [NoUnit(cfg) EXCEPT !.calls = <<ListCall(plan[1])>>, !.end = "exit1"]
    ELSE LET u == Listed(accounts, cfg)
             name == NewSaName(cfg.prefix, cfg.date_fmt, today)
             loop == DeleteLoop(u.matching, plan, 3, cfg.dry_run, TRUE)
         IN  IF cfg.dry_run
             THEN SendNotification([u EXCEPT !.new_sa_name = name,
                                             !.new_api_key_value = DummyKey])
             ELSE IF plan[2] # "ok"
             THEN [u EXCEPT !.new_sa_name = name,
                            !.calls = @ \o <<CreateCall(name, plan[2])>>,
                            !.end = "exit1"]
             ELSE SendNotification(
                    [u EXCEPT !.new_sa_name = name,
                              !.calls = @ \o <<CreateCall(name, "ok")>>
                                          \o loop.calls,
                              !.created = TRUE,
                              !.new_api_key_value = RealKey])

\* rotation create (lines 116-309)
CreateRotationKey(accounts, cfg, plan, today) ==
    IF MissingParameter(cfg) THEN [NoUnit(cfg) EXCEPT !.end = "exit1"]
    ELSE IF plan[1] # "ok"
    THEN [NoUnit(cfg) EXCEPT !.calls = <<ListCall(plan[1])>>, !.end = "exit1"]
    ELSE LET u == Listed(accounts, cfg)
             name == NewSaName(cfg.prefix, cfg.date_fmt, today)
         IN  IF cfg.dry_run
             THEN SendNotification([u EXCEPT !.new_sa_name = name,
                                             !.new_api_key_value = DummyKey])
             ELSE IF plan[2] # "ok"
             THEN [u EXCEPT !.new_sa_name = name,
                            !.calls = @ \o <<CreateCall(name, plan[2])>>,
                            !.end = "exit1"]
             ELSE SendNotification(
                    [u EXCEPT !.new_sa_name = name,
                              !.calls = @ \o <<CreateCall(name, "ok")>>,
                              !.created = TRUE,
                              !.new_api_key_value = RealKey])

\* mutant of NothingToCleanup: < where the code has <=
NothingToCleanupStrict(matching, keep_latest) == Len(matching) < keep_latest

\* if len(matching_accounts) <= keep_latest: nothing to cleanup
NothingToCleanup(matching, keep_latest) == Len(matching) <= keep_latest

\* rotation cleanup (lines 320-454)
CleanupOldKeys(accounts, cfg, plan, today) ==
    IF MissingParameter(cfg) THEN [NoUnit(cfg) EXCEPT !.end = "exit1"]
    ELSE IF plan[1] # "ok"
    THEN [NoUnit(cfg) EXCEPT !.calls = <<ListCall(plan[1])>>, !.end = "exit1"]
    ELSE LET u == Listed(accounts, cfg)
             dels == SliceFrom(u.matching, cfg.keep_latest)
         IN  IF u.matching = <<>> THEN [u EXCEPT !.nothing = TRUE]
             ELSE IF NothingToCleanup(u.matching, cfg.keep_latest)
             THEN [u EXCEPT !.nothing = TRUE]
             ELSE IF ~cfg.dry_run /\ ~cfg.proceed
             THEN [u EXCEPT !.to_delete = dels, !.cancelled = TRUE]
             ELSE LET loop == DeleteLoop(dels, plan, 2, cfg.dry_run, TRUE)
                  IN  [u EXCEPT !.to_delete = dels,
                                !.calls = @ \o loop.calls,
                                !.deleted = loop.deleted,
                                !.end = loop.end]

\* mutant of AccountsToDelete: matching[:-1] where the code has matching[1:]
AccountsToDeleteKeepOldest(matching, today) ==
    IF Len(matching) >= 2 THEN SliceTo(matching, -1)
    ELSE IF Len(matching) = 1
    THEN (IF DateLess(matching[1].date, today) THEN matching ELSE <<>>)
    ELSE <<>>

\* Step 3 of rotation execute (lines 609-622): the accounts to delete
AccountsToDelete(matching, today) ==
    IF Len(matching) >= 2 THEN SliceFrom(matching, 1)
    ELSE IF Len(matching) = 1
    THEN (IF DateLess(matching[1].date, today) THEN matching ELSE <<>>)
    ELSE <<>>

\* rotation execute (lines 466-697)
ExecuteRotation(accounts, cfg, plan, today) ==
    IF MissingParameter(cfg) THEN [NoUnit(cfg) EXCEPT !.end = "exit1"]
    ELSE IF plan[1] # "ok"
    THEN [NoUnit(cfg) EXCEPT !.calls = <<ListCall(plan[1])>>, !.end = "exit1"]
    ELSE LET u == Listed(accounts, cfg)
             name == NewSaName(cfg.prefix, cfg.date_fmt, today)
             current_sa_exists == NameExists(u.matching, name)
             creates == ~current_sa_exists /\ ~cfg.dry_run
             dels == AccountsToDelete(u.matching, today)
             loop == DeleteLoop(dels, plan, IF creates THEN 3 ELSE 2,
                                cfg.dry_run, TRUE)
         IN  IF creates /\ plan[2] # "ok"
             THEN [u EXCEPT !.new_sa_name = name,
                            !.calls = @ \o <<CreateCall(name, plan[2])>>,
                            !.end = "exit1"]
             ELSE LET v == [u EXCEPT
                            !.new_sa_name = name,
                            !.skipped = current_sa_exists,
                            !.created = creates,
                            !.new_api_key_value =
                                IF current_sa_exists THEN "None"
                                ELSE IF cfg.dry_run THEN DummyKey ELSE RealKey,
                            !.calls = @ \o (IF creates
                                            THEN <<CreateCall(name, "ok")>>
                                            ELSE <<>>) \o loop.calls,
                            !.to_delete = dels,
                            !.deleted = loop.deleted,
                            !.end = loop.end]
                  IN  IF loop.end = "return" THEN SendNotification(v) ELSE v

\* how a call outside any try block leaves the helper
Propagates(o) == IF Exits(o) THEN "exit1" ELSE "raise"

\* _execute_create (lines 1022-1077)
ExecuteCreate(accounts, cfg, plan, today) ==
    IF plan[1] # "ok"
    THEN [NoUnit(cfg) EXCEPT !.calls = <<ListCall(plan[1])>>,
                             !.end = Propagates(plan[1])]
    ELSE LET u == Listed(accounts, cfg)
             name == NewSaName(cfg.prefix, cfg.date_fmt, today)
         IN  IF NameExists(u.matching, name)
             THEN [u EXCEPT !.new_sa_name = name, !.skipped = TRUE]
             ELSE IF cfg.dry_run THEN [u EXCEPT !.new_sa_name = name]
             ELSE IF plan[2] # "ok"
             THEN [u EXCEPT !.new_sa_name = name,
                            !.calls = @ \o <<CreateCall(name, plan[2])>>,
                            !.end = Propagates(plan[2])]
             ELSE SendNotification(
                    [u EXCEPT !.new_sa_name = name,
                              !.calls = @ \o <<CreateCall(name, "ok")>>,
                              !.created = TRUE,
                              !.new_api_key_value = RealKey])

\* _execute_cleanup (lines 1080-1105)
ExecuteCleanup(accounts, cfg, plan, today) ==
    IF plan[1] # "ok"
    THEN [NoUnit(cfg) EXCEPT !.calls = <<ListCall(plan[1])>>,
                             !.end = Propagates(plan[1])]
    ELSE LET u == Listed(accounts, cfg)
             dels == SliceFrom(u.matching, cfg.keep_latest)
             loop == DeleteLoop(dels, plan, 2, cfg.dry_run, FALSE)
         IN  IF u.matching = <<>> THEN [u EXCEPT !.nothing = TRUE]
             ELSE IF NothingToCleanup(u.matching, cfg.keep_latest)
             THEN [u EXCEPT !.nothing = TRUE]
             ELSE [u EXCEPT !.to_delete = dels,
                            !.calls = @ \o loop.calls,
                            !.deleted = loop.deleted,
                            !.end = loop.end]

(* ------------------------------ inputs -------------------------------- *)

PrefixP == <<"p">>

PrefixQ == <<"q">>

\* the days on which the tool runs: the first of a month and a later day
Todays == {MkDate(2026, 11, 1), MkDate(2026, 11, 15)}

\* names under the rotated prefix of the accounts a project may hold when
\* the tool first runs: this period's name in both formats, an older and a
\* later period, and a full date that falls on the first of this month
NamePool(t) ==
    {NewSaName(PrefixP, "YY-MM", t),
     NewSaName(PrefixP, "YYYY-MM-DD", t),
     NewSaName(PrefixP, "YYYY-MM-DD", MkDate(t.y, t.m, 1)),
     NewSaName(PrefixP, "YY-MM", MkDate(t.y, t.m - 1, 1)),
     NewSaName(PrefixP, "YY-MM", MkDate(t.y + 1, 1, 1))}

\* the accounts of the project that belong to another rotation: none, or
\* this period's account under the other prefix
Others(t) == {<<>>, <<[id |-> 0, name |-> NewSaName(PrefixQ, "YY-MM", t)]>>}

\* the listings of a project with n accounts under the rotated prefix; ids
\* are server-assigned and distinct
Projects(t, n) ==
    {other \o [i \in 1..n |-> [id |-> i, name |-> names[i]]] :
        other \in Others(t), names \in [1..n -> NamePool(t)]}

DateFormats == {"YY-MM", "YYYY-MM-DD"}

\* --keep-latest is type=int: any integer is accepted
KeepValues == {-2, -1, 0, 1, 2}

\* options of the three commands after the config file and the command line
\* are merged; a missing project id or prefix is the empty value
Cfg(op, project_id, prefix, date_fmt, dry_run, keep_latest, proceed) ==
    [op |-> op, project_id |-> project_id, prefix |-> prefix,
     date_fmt |-> date_fmt, dry_run |-> dry_run,
     keep_latest |-> keep_latest, proceed |-> proceed, notify_user |-> ""]

\* --notify-user: not given, or a user id
NotifyUsers == {"", "49"}

\* the options with --notify-user or the config file's notify_user
Notifying(cfgs) == {[c EXCEPT !.notify_user = n] : c \in cfgs, n \in NotifyUsers}

NoCfg == Cfg("none", "", <<>>, "YY-MM", FALSE, 1, TRUE)

\* proceed: --force was given or the confirmation prompt was answered yes
\* (only rotation cleanup prompts, and only without --dry-run)
Cfgs(op) ==
    {Cfg(op, "", PrefixP, "YY-MM", FALSE, 1, TRUE),
     Cfg(op, "proj", <<>>, "YY-MM", FALSE, 1, TRUE)}
    \cup
    {Cfg(op, "proj", px, f, d, k, c) :
        px \in {PrefixP}, f \in DateFormats, d \in BOOLEAN,
        k \in KeepValues, c \in BOOLEAN}

CreateCfgs == Notifying({c \in Cfgs("create") : c.keep_latest = 1 /\ c.proceed})

ExecuteCfgs == Notifying({c \in Cfgs("execute") : c.keep_latest = 1 /\ c.proceed})

CleanupCfgs ==
    {c \in Cfgs("cleanup") : c.date_fmt = "YY-MM" /\ (c.dry_run => c.proceed)}

(* ------------------------------ batch inputs -------------------------- *)

\* one entry of a group's "keys": its name is the prefix of a rotation unit
Key(name, date_format) ==
    [name |-> name, date_format |-> date_format, notify_user |-> "",
     notify_channel |-> "mattermost"]

\* a key whose configuration names a user to notify over a channel
NotifiedKey(name, date_format, notify_channel) ==
    [Key(name, date_format) EXCEPT !.notify_user = "49",
                                   !.notify_channel = notify_channel]

\* notify_user if notify_channel == 'mattermost' else None
KeyNotifyUser(key) ==
    IF key.notify_channel = "mattermost" THEN key.notify_user ELSE ""

Group(project_id, keys) == [project_id |-> project_id, keys |-> keys]

\* the "rotations" of the configuration files rotation batch is run on:
\* none; one group of three keys; and groups that lack a project id, hold a
\* key without a name, or hold no keys
BatchFiles ==
    {<<>>,
     <<Group("proj", <<NotifiedKey(PrefixP, "YY-MM", "mattermost"),
                       NotifiedKey(PrefixQ, "YY-MM", "email"),
                       Key(PrefixP, "YYYY-MM-DD")>>)>>,
     <<Group("", <<Key(PrefixP, "YY-MM")>>),
       Group("proj", <<Key(<<>>, "YY-MM"), Key(PrefixP, "YY-MM")>>),
       Group("proj", <<>>)>>}

\* an entry of results['success'], ['failed'] or ['skipped']: the group, the
\* key within it (0 for the group itself) and what was recorded
Entry(g, k, what) == [g |-> g, k |-> k, what |-> what]

\* the batch: its options, the position of its loops (group g, key k), its
\* results, and for each key handed to a helper the kind of the first call
\* that failed in it (attempted) with the number of failed calls (faults)
NoBatch ==
    [rotations |-> <<>>, action |-> "none", dry_run |-> FALSE,
     g |-> 0, k |-> 0, attempted |-> <<>>, faults |-> 0,
     success |-> <<>>, failed |-> <<>>, skipped |-> <<>>,
     cancelled |-> FALSE]

(* ------------------------------ notification settings ---------------- *)

\* None and the empty string are both falsy: an option that is not set
Unset == ""

\* user ids of config/users.json that --notify may name
Users == {"42"}

\* --channel of the root group (cli.py) and of a wrapped command (utils.py)
RootChannels == {"mattermost", "email"}

CommandChannels == {"mattermost"}

\* x or y
Or(x, y) == IF x # Unset THEN x ELSE y

Settings(notify_user, notify_channel) ==
    [notify_user |-> notify_user, notify_channel |-> notify_channel]

\* ctx.obj as cli() leaves it: it exits when exactly one of --notify and
\* --channel is given
CtxObjs ==
    {o \in {Settings(u, c) : u \in Users \cup {Unset},
                              c \in RootChannels \cup {Unset}} :
        (o.notify_user = Unset) = (o.notify_channel = Unset)}

\* the sinks sys.stdout and sys.stderr can be bound to: the two streams of
\* the terminal and the StringIO of a wrapper invocation
Tty(stream) == [kind |-> stream, id |-> 0]

Buffer(id) == [kind |-> "buffer", id |-> id]

\* a piece of text, marked with the invocation that produced it
Chunk(by, text) == [by |-> by, text |-> text]

\* what is kept of a wrapper invocation that has ended: the settings it
\* resolved, how often it called the wrapped function and how that ended,
\* how the wrapper itself ended (end, value), what it had captured, how
\* many pieces of text its function wrote, the invocations that ran inside
\* it, and sys.stdout / sys.stderr before it was entered and after it was
\* left
NoInvocation ==
    [id |-> 0, notify_user |-> Unset, notify_channel |-> Unset,
     redirect |-> FALSE, invoked |-> 0, func_end |-> "none",
     func_value |-> "none", end |-> "none", value |-> "none",
     captured |-> <<>>, wrote |-> 0, inner |-> {},
     before |-> <<Tty("stdout"), Tty("stderr")>>,
     after |-> <<Tty("stdout"), Tty("stderr")>>]

(* ------------------------------ state --------------------------------- *)

VARIABLES
    remote,     \* the project's service accounts, in listing order
    today,      \* datetime.now() of the invocations
    nextId,     \* the id the server assigns to the next account
    pc,         \* "shell": before the invocation; "done": after its exit
    unit,       \* the rotation unit of the command that has finished
    status,     \* exit status of the finished process, "none" in the shell
    batch,      \* rotation batch: its options, position and results
    ctx_obj,    \* ctx.obj['notify_user'], ctx.obj['notify_channel']
    channels,   \* NotificationManager().notifiers: the channels configured
    sys_stdout, \* the sink sys.stdout is bound to
    sys_stderr, \* the sink sys.stderr is bound to
    console,    \* what the command in progress has put on the terminal
    stack,      \* the wrapper invocations in progress, innermost last
    sends,      \* the delivery attempts of the command in progress
    last,       \* the wrapper invocation that ended last
    nid,        \* the id of the next wrapper invocation
    parser      \* a call of _parse_service_account_date: arguments and result

rvars == <<remote, today, nextId, pc, unit, status, batch>>

wvars == <<ctx_obj, channels, sys_stdout, sys_stderr, console, stack, sends,
           last, nid>>

vars == <<rvars, wvars, parser>>

\* the date parser has not been called on its own
NoParse ==
    [pc |-> "none", form |-> "none", prefix |-> <<>>, name |-> NoName,
     y |-> 0, m |-> 0, d |-> 0, date |-> NoDate]

\* no wrapped command has run
WrapperIdle ==
    /\ sys_stdout = Tty("stdout")
    /\ sys_stderr = Tty("stderr")
    /\ console = <<>>
    /\ stack = <<>>
    /\ sends = <<>>
    /\ last = NoInvocation
    /\ nid = 1

Init ==
    /\ today \in Todays
    /\ \E n \in 0..MaxAccounts : remote \in Projects(today, n)
    /\ nextId = MaxAccounts + 1
    /\ pc = "shell"
    /\ unit = NoUnit(NoCfg)
    /\ status = "none"
    /\ batch = NoBatch
    /\ ctx_obj = Settings(Unset, Unset)
    /\ channels = {}
    /\ WrapperIdle
    /\ parser = NoParse

\* ids whose delete call removed the account (or found it already removed)
RemovedIds(calls) ==
    {calls[i].id : i \in {j \in 1..Len(calls) :
                            /\ calls[j].kind = "delete"
                            /\ calls[j].outcome \in {"ok", "not_found"}}}

RECURSIVE Without(_, _)
Without(accounts, ids) ==
    IF accounts = <<>> THEN <<>>
    ELSE IF Head(accounts).id \in ids THEN Without(Tail(accounts), ids)
    ELSE <<Head(accounts)>> \o Without(Tail(accounts), ids)

\* the project after the unit's calls: the server lists a new account either
\* first or last
ServerAfter(accounts, u, id, first) ==
    LET kept == Without(accounts, RemovedIds(u.calls))
        new == [id |-> id, name |-> u.new_sa_name]
    IN  IF ~u.created THEN kept
        ELSE IF first THEN <<new>> \o kept ELSE kept \o <<new>>

\* every failure the plan holds was met by a call the unit issued
PlanUsed(plan, u) ==
    \A k \in DOMAIN plan : plan[k] # "ok" => k <= Len(u.calls)

\* the plan in which every call succeeds
AllOk(n) == [k \in 1..n |-> "ok"]

\* where the server may list a new account: first or last
Places(u) == IF u.created THEN BOOLEAN ELSE {TRUE}

ExitStatus(u) == IF u.end = "return" THEN "0" ELSE "1"

\* the invocation of a rotation command, from the shell to its exit
Invoke(u, first) ==
    /\ unit' = u
    /\ remote' = ServerAfter(remote, u, nextId, first)
    /\ nextId' = IF u.created THEN nextId + 1 ELSE nextId
    /\ pc' = "done"
    /\ status' = ExitStatus(u)
    /\ UNCHANGED <<today, batch>>
    /\ UNCHANGED <<wvars, parser>>

\* the calls a unit issues when none fails bound the positions that can fail
RotationCreate ==
    /\ pc = "shell"
    /\ \E cfg \in CreateCfgs :
        LET most == Len(CreateRotationKey(remote, cfg, AllOk(Len(remote) + 2), today).calls)
        IN  \E plan \in Plans(most, MaxFaults) :
                LET u == CreateRotationKey(remote, cfg, plan, today)
                IN  PlanUsed(plan, u) /\ \E first \in Places(u) : Invoke(u, first)

RotationCleanup ==
    /\ pc = "shell"
    /\ \E cfg \in CleanupCfgs :
        LET most == Len(CleanupOldKeys(remote, cfg, AllOk(Len(remote) + 2),
                                       today).calls)
        IN  \E plan \in Plans(most, MaxFaults) :
                LET u == CleanupOldKeys(remote, cfg, plan, today)
                IN  PlanUsed(plan, u) /\ \E first \in Places(u) : Invoke(u, first)

RotationExecute ==
    /\ pc = "shell"
    /\ \E cfg \in ExecuteCfgs :
        LET most == Len(ExecuteRotation(remote, cfg, AllOk(Len(remote) + 2),
                                        today).calls)
        IN  \E plan \in Plans(most, MaxFaults) :
                LET u == ExecuteRotation(remote, cfg, plan, today)
                IN  PlanUsed(plan, u) /\ \E first \in Places(u) : Invoke(u, first)

(* ------------------------------ rotation batch ------------------------ *)

\* batch_rotation up to its loop (lines 889-932): no rotations is an error;
\* without --force and --dry-run the user is asked and may cancel
BatchStart ==
    /\ pc = "shell"
    /\ \E rotations \in BatchFiles, action \in {"create", "cleanup"},
          dry_run \in BOOLEAN, proceed \in BOOLEAN :
        /\ dry_run => proceed
        /\ (rotations = <<>> \/ ~proceed) => (action = "create" /\ ~dry_run)
        /\ batch' = [NoBatch EXCEPT !.rotations = rotations, !.action = action,
                                    !.dry_run = dry_run, !.g = 1,
                                    !.cancelled = (rotations # <<>> /\ ~proceed)]
        /\ pc' = IF rotations = <<>> \/ ~proceed THEN "done" ELSE "batch"
        /\ status' = IF rotations = <<>> THEN "1"
                     ELSE IF ~proceed THEN "0" ELSE "none"
    /\ UNCHANGED <<remote, today, nextId, unit>>
    /\ UNCHANGED <<wvars, parser>>

\* mutant of Advance: a key that is done with ends its group
AdvanceGroup(b) == [b EXCEPT !.g = b.g + 1, !.k = 0]

\* the position after key k of group g
Advance(b) ==
    IF b.k < Len(b.rotations[b.g].keys)
    THEN [b EXCEPT !.k = b.k + 1]
    ELSE [b EXCEPT !.g = b.g + 1, !.k = 0]

\* the head of the loop over groups (lines 935-955)
BatchGroup ==
    /\ pc = "batch"
    /\ batch.g <= Len(batch.rotations)
    /\ batch.k = 0
    /\ LET rotation == batch.rotations[batch.g]
       IN  batch' =
             IF rotation.project_id = ""
             THEN [batch EXCEPT !.g = @ + 1,
                     !.failed = Append(@, Entry(batch.g, 0, "Missing project_id"))]
             ELSE IF rotation.keys = <<>>
             THEN [batch EXCEPT !.g = @ + 1,
                     !.skipped = Append(@, Entry(batch.g, 0, "No keys"))]
             ELSE [batch EXCEPT !.k = 1]
    /\ UNCHANGED <<remote, today, nextId, pc, unit, status>>
    /\ UNCHANGED <<wvars, parser>>

\* mutant of HelperCfg: dry_run is not handed on to the helper
HelperCfgNoDryRun(b) ==
    LET rotation == b.rotations[b.g]
        key == rotation.keys[b.k]
    IN  [Cfg(IF b.action = "create" THEN "batch_create" ELSE "batch_cleanup",
             rotation.project_id, key.name, key.date_format, FALSE, 1, TRUE)
         EXCEPT !.notify_user = KeyNotifyUser(key)]

\* the options the batch hands to its helper for one key (lines 976-988)
HelperCfg(b) ==
    LET rotation == b.rotations[b.g]
        key == rotation.keys[b.k]
    IN  [Cfg(IF b.action = "create" THEN "batch_create" ELSE "batch_cleanup",
             rotation.project_id, key.name, key.date_format, b.dry_run, 1, TRUE)
         EXCEPT !.notify_user = KeyNotifyUser(key)]

\* the kind of the first call of the unit that failed, "ok" when none did
FirstFailure(u) ==
    LET bad == {i \in 1..Len(u.calls) : u.calls[i].outcome # "ok"}
    IN  IF bad = {} THEN "ok"
        ELSE u.calls[CHOOSE i \in bad : \A j \in bad : i <= j].kind

NFailed(u) == Cardinality({i \in 1..Len(u.calls) : u.calls[i].outcome # "ok"})

Helper(accounts, cfg, plan, t) ==
    IF cfg.op = "batch_create" THEN ExecuteCreate(accounts, cfg, plan, t)
    ELSE ExecuteCleanup(accounts, cfg, plan, t)

\* one key of the loop over keys (lines 958-989): a key without a name is
\* recorded as failed; otherwise the helper runs on its own listing
BatchKey ==
    /\ pc = "batch"
    /\ batch.g <= Len(batch.rotations)
    /\ batch.k > 0
    /\ LET cfg == HelperCfg(batch)
       IN  IF cfg.prefix = <<>>
           THEN /\ batch' = [Advance(batch) EXCEPT
                               !.failed = Append(@, Entry(batch.g, batch.k,
                                                          "Missing name"))]
                /\ UNCHANGED <<remote, nextId, pc, unit>>
           ELSE LET most == Len(Helper(remote, cfg, AllOk(Len(remote) + 2),
                                       today).calls)
                IN  \E plan \in Plans(most, MaxFaults - batch.faults) :
                      LET u == Helper(remote, cfg, plan, today)
                      IN  /\ PlanUsed(plan, u)
                          /\ \E first \in Places(u) :
                               remote' = ServerAfter(remote, u, nextId, first)
                          /\ nextId' = IF u.created THEN nextId + 1 ELSE nextId
                          /\ unit' = u
                          /\ pc' = "batch_unit"
                          /\ batch' = [batch EXCEPT
                               !.attempted = Append(@, Entry(batch.g, batch.k,
                                                             FirstFailure(u))),
                               !.faults = @ + NFailed(u)]
    /\ UNCHANGED <<today, status>>
    /\ UNCHANGED <<wvars, parser>>

\* how the helper's call ends (lines 981-995): it returned, an exception was
\* caught and recorded, or SystemExit ended the process
BatchRecord ==
    /\ pc = "batch_unit"
    /\ IF unit.end = "exit1"
       THEN /\ pc' = "done"
            /\ status' = "1"
            /\ batch' = batch
       ELSE /\ pc' = "batch"
            /\ status' = status
            /\ batch' =
                 IF unit.end = "return"
                 THEN [Advance(batch) EXCEPT
                         !.success = Append(@, Entry(batch.g, batch.k,
                             IF batch.action = "create" THEN "Created"
                             ELSE "Cleaned up"))]
                 ELSE [Advance(batch) EXCEPT
                         !.failed = Append(@, Entry(batch.g, batch.k, "error"))]
    /\ unit' = IF unit.end = "exit1" THEN unit ELSE NoUnit(NoCfg)
    /\ UNCHANGED <<remote, today, nextId>>
    /\ UNCHANGED <<wvars, parser>>

\* the final summary (lines 999-1019)
BatchSummary ==
    /\ pc = "batch"
    /\ batch.g > Len(batch.rotations)
    /\ pc' = "done"
    /\ status' = "0"
    /\ UNCHANGED <<remote, today, nextId, unit, batch>>
    /\ UNCHANGED <<wvars, parser>>

Next ==
    \/ RotationCreate
    \/ RotationCleanup
    \/ RotationExecute
    \/ BatchStart
    \/ BatchGroup
    \/ BatchKey
    \/ BatchRecord
    \/ BatchSummary

Spec == Init /\ [][Next]_vars

(* ------------------------------ create, later cleanup ----------------- *)

\* the two-step rotation: rotation create, and rotation cleanup in a later
\* invocation on the project as the create left it.  pc is "shell" before
\* the create, "created" after it, "later" when the days of overlap have
\* passed, and "done" after the cleanup.

\* the days between the two steps ("Day 1" and "Day 7" of the command help)
LaterDay(t) == MkDate(t.y, t.m, t.d + 6)

FlowCreate ==
    /\ pc = "shell"
    /\ \E cfg \in CreateCfgs :
        LET most == Len(CreateRotationKey(remote, cfg, AllOk(Len(remote) + 2), today).calls)
        IN  \E plan \in Plans(most, MaxFaults) :
                LET u == CreateRotationKey(remote, cfg, plan, today)
                IN  /\ PlanUsed(plan, u)
                    /\ \E first \in Places(u) :
                          remote' = ServerAfter(remote, u, nextId, first)
                    /\ nextId' = IF u.created THEN nextId + 1 ELSE nextId
                    /\ unit' = u
                    /\ status' = ExitStatus(u)
    /\ pc' = "created"
    /\ UNCHANGED <<today, batch>>
    /\ UNCHANGED <<wvars, parser>>

FlowLater ==
    /\ pc = "created"
    /\ today' = LaterDay(today)
    /\ pc' = "later"
    /\ UNCHANGED <<remote, nextId, unit, status, batch>>
    /\ UNCHANGED <<wvars, parser>>

FlowCleanup ==
    /\ pc = "later"
    /\ \E cfg \in CleanupCfgs :
        LET most == Len(CleanupOldKeys(remote, cfg, AllOk(Len(remote) + 2),
                                       today).calls)
        IN  \E plan \in Plans(most, MaxFaults) :
                LET u == CleanupOldKeys(remote, cfg, plan, today)
                IN  /\ PlanUsed(plan, u)
                    /\ remote' = ServerAfter(remote, u, nextId, TRUE)
                    /\ unit' = u
                    /\ status' = ExitStatus(u)
    /\ pc' = "done"
    /\ UNCHANGED <<today, nextId, batch>>
    /\ UNCHANGED <<wvars, parser>>

FlowNext ==
    \/ FlowCreate
    \/ FlowLater
    \/ FlowCleanup

FlowSpec == Init /\ [][FlowNext]_vars

(* ------------------------------ with_notification --------------------- *)

\* what a wrapped function prints, as the streams it writes to in turn
Outputs == {<<>>, <<"stdout">>, <<"stderr">>, <<"stdout", "stderr">>}

\* how the wrapped function ends: it returns its value, raises an exception
\* (click's Exit and Abort are exceptions too) or raises SystemExit
FuncEnds == {"return", "raise", "exit"}

FuncValue(how) ==
    IF how = "return" THEN "r"
    ELSE IF how = "raise" THEN "error"
    ELSE IF how = "exit" THEN "SystemExit"
    ELSE "none"

\* mutant of UsageError: only --notify without --channel is rejected
UsageErrorNotifyOnly(notify_user, notify_channel) ==
    notify_user # Unset /\ notify_channel = Unset

\* if notify_user and not notify_channel / if notify_channel and not
\* notify_user: ctx.exit(1)
UsageError(notify_user, notify_channel) ==
    \/ notify_user # Unset /\ notify_channel = Unset
    \/ notify_channel # Unset /\ notify_user = Unset

\* mutant of Passthrough: the wrapper captures whether or not notification
\* is configured
PassthroughNever(notify_user, notify_channel) == FALSE

\* if not notify_user or not notify_channel: return func(*args, **kwargs)
Passthrough(notify_user, notify_channel) ==
    notify_user = Unset \/ notify_channel = Unset

\* One wrapper invocation in progress.  old_stdout and old_stderr are the
\* sinks found on entry; redirect: the invocation captures into its own
\* StringIO (captured); todo: the streams the function has yet to write to;
\* wrote: the pieces of text it has written;
\* inner: the invocations that ran inside this one; pending: how a nested
\* invocation left the function, "none" while it has not; success and
\* result are the wrapper's locals, "unbound" until assigned.
Frame(id, notify_user, notify_channel, out, err, todo) ==
    [id |-> id, notify_user |-> notify_user, notify_channel |-> notify_channel,
     redirect |-> ~Passthrough(notify_user, notify_channel),
     old_stdout |-> out, old_stderr |-> err, captured |-> <<>>,
     todo |-> todo, wrote |-> 0, inner |-> {}, pc |-> "body",
     func_end |-> "none",
     pending |-> "none", success |-> "unbound", result |-> "unbound"]

\* text written to a sink reaches the terminal ...
OnConsole(con, sink, chunks) ==
    IF sink.kind = "buffer" THEN con ELSE con \o chunks

\* ... or the StringIO of the invocation in progress that owns the sink
InStack(st, sink, chunks) ==
    [i \in 1..Len(st) |->
        IF sink.kind = "buffer" /\ st[i].id = sink.id
        THEN [st[i] EXCEPT !.captured = @ \o chunks]
        ELSE st[i]]

\* the invocations in progress after the innermost one, f, has left: its
\* caller's function goes on after a return and is left the same way after
\* an exception or SystemExit
Leave(st, f, end) ==
    LET rest == SubSeq(st, 1, Len(st) - 1)
    IN  IF rest = <<>> THEN rest
        ELSE [rest EXCEPT ![Len(rest)].inner = @ \cup {f.id} \cup f.inner,
                          ![Len(rest)].pending = IF end = "return" THEN @ ELSE end]

\* the record kept of invocation f once it has ended
Ended(f, invoked, end, value, out, err) ==
    [id |-> f.id, notify_user |-> f.notify_user,
     notify_channel |-> f.notify_channel, redirect |-> f.redirect,
     invoked |-> invoked, func_end |-> f.func_end,
     func_value |-> FuncValue(f.func_end), end |-> end, value |-> value,
     captured |-> f.captured, wrote |-> f.wrote, inner |-> f.inner,
     before |-> <<f.old_stdout, f.old_stderr>>, after |-> <<out, err>>]

\* try: result = func(...); success = True / except Exception: write the
\* error to the StringIO, success = False, result = None.  SystemExit passes
\* both, leaving success and result unassigned.
AfterFunc(f, how) ==
    IF how = "return"
    THEN [f EXCEPT !.func_end = how, !.pc = "finally",
                   !.success = "True", !.result = FuncValue(how)]
    ELSE IF how = "raise"
    THEN [f EXCEPT !.func_end = how, !.pc = "finally",
                   !.captured = @ \o <<Chunk(f.id, "Error")>>,
                   !.success = "False", !.result = "None"]
    ELSE [f EXCEPT !.func_end = how, !.pc = "finally"]

\* mutant of Restored: sys.stderr is left bound to the StringIO
RestoredStdoutOnly(f) == <<f.old_stdout, Buffer(f.id)>>

\* finally: sys.stdout = old_stdout; sys.stderr = old_stderr
Restored(f) == <<f.old_stdout, f.old_stderr>>

\* what a delivery attempt can come to: delivered, the user id is not in
\* users.json (ValueError), the HTTP or SMTP transfer fails
NotifyOutcomes == {"sent", "no_recipient", "transport_error"}

\* format_command_output(command_path, output, success) for mattermost;
\* any other channel gets a message without the success flag
Tag(f) ==
    IF f.notify_channel = "mattermost"
    THEN (IF f.success = "True" THEN "success" ELSE "failure")
    ELSE "none"

Delivery(f) ==
    [by |-> f.id, channel |-> f.notify_channel, user |-> f.notify_user,
     tag |-> Tag(f), text |-> f.captured]

\* mutant of Notification: a failed notification is not caught
NotificationUncaught(f, chans, how) ==
    IF f.notify_channel \notin chans
    THEN [echo |-> <<"warning">>, attempts |-> <<>>, leaves |-> "raises"]
    ELSE [echo |-> <<>>, attempts |-> <<Delivery(f)>>,
          leaves |-> IF how = "sent" THEN "falls_through" ELSE "raises"]

\* The notification block of the finally clause (lines 93-120): what it
\* echoes to stderr, the delivery attempts it makes and how control leaves
\* it.  Reading a local that was never assigned raises UnboundLocalError,
\* which the block's own except Exception reports like a failed delivery.
Notification(f, chans, how) ==
    IF f.notify_channel \notin chans
    THEN IF f.result = "unbound"
         THEN [echo |-> <<"warning", "notify_error">>, attempts |-> <<>>,
               leaves |-> "falls_through"]
         ELSE [echo |-> <<"warning">>, attempts |-> <<>>, leaves |-> "returns"]
    ELSE IF f.notify_channel = "mattermost" /\ f.success = "unbound"
    THEN [echo |-> <<"notify_error">>, attempts |-> <<>>,
          leaves |-> "falls_through"]
    ELSE [echo |-> <<IF how = "sent" THEN "notified" ELSE "notify_error">>,
          attempts |-> <<Delivery(f)>>, leaves |-> "falls_through"]

\* how the wrapper is left after its finally clause: a return inside finally
\* discards an exception in flight; otherwise SystemExit goes on, and a
\* function that returned or raised an exception ends in `return result`
WrapperEnd(f, leaves) ==
    IF leaves = "raises" THEN "raise"
    ELSE IF leaves = "returns" THEN "return"
    ELSE IF f.func_end = "exit" THEN "exit"
    ELSE "return"

WrapperValue(f, leaves) ==
    IF leaves = "raises" THEN "RuntimeError"
    ELSE IF WrapperEnd(f, leaves) = "exit" THEN FuncValue("exit")
    ELSE f.result

\* a process in which wrapped commands run: cli() has stored the root
\* options, the environment decides which notifiers can be constructed
WrapInit ==
    /\ remote = <<>>
    /\ today = MkDate(2026, 11, 1)
    /\ nextId = MaxAccounts + 1
    /\ pc = "shell"
    /\ unit = NoUnit(NoCfg)
    /\ status = "none"
    /\ batch = NoBatch
    /\ ctx_obj \in CtxObjs
    /\ channels \in SUBSET RootChannels
    /\ WrapperIdle
    /\ parser = NoParse

\* wrapper(*args, **kwargs) is called (lines 42-69), by click or by the
\* function of the invocation in progress
WrapperEnter ==
    /\ nid <= MaxCalls
    /\ stack # <<>> =>
          (stack[Len(stack)].pc = "body" /\ stack[Len(stack)].pending = "none")
    /\ \E n \in Users \cup {Unset}, c \in CommandChannels \cup {Unset},
          output \in Outputs :
         LET notify_user == Or(n, ctx_obj.notify_user)
             notify_channel == Or(c, ctx_obj.notify_channel)
             con == IF stack = <<>> THEN <<>> ELSE console
             f == Frame(nid, notify_user, notify_channel, sys_stdout, sys_stderr,
                        output)
             msg == <<Chunk(nid, "usage")>>
         IN  IF UsageError(notify_user, notify_channel)
             THEN /\ output = <<>>
                  /\ console' = OnConsole(con, sys_stderr, msg)
                  /\ stack' = Leave(InStack(stack \o <<f>>, sys_stderr, msg),
                                    f, "raise")
                  /\ last' = Ended(f, 0, "raise", "Exit", sys_stdout, sys_stderr)
                  /\ UNCHANGED <<sys_stdout, sys_stderr>>
             ELSE /\ console' = con
                  /\ stack' = stack \o <<f>>
                  /\ last' = IF stack = <<>> THEN NoInvocation ELSE last
                  /\ sys_stdout' = IF f.redirect THEN Buffer(nid) ELSE sys_stdout
                  /\ sys_stderr' = IF f.redirect THEN Buffer(nid) ELSE sys_stderr
    /\ sends' = IF stack = <<>> THEN <<>> ELSE sends
    /\ nid' = nid + 1
    /\ UNCHANGED <<ctx_obj, channels>>
    /\ UNCHANGED <<rvars, parser>>

\* the wrapped function writes to sys.stdout or sys.stderr (click.echo)
FuncWrite ==
    /\ stack # <<>>
    /\ stack[Len(stack)].pc = "body"
    /\ stack[Len(stack)].pending = "none"
    /\ stack[Len(stack)].todo # <<>>
    /\ LET stream == Head(stack[Len(stack)].todo)
           sink == IF stream = "stdout" THEN sys_stdout ELSE sys_stderr
           text == <<Chunk(stack[Len(stack)].id, stream)>>
           st == [stack EXCEPT ![Len(stack)].wrote = @ + 1,
                               ![Len(stack)].todo = Tail(@)]
       IN  /\ console' = OnConsole(console, sink, text)
           /\ stack' = InStack(st, sink, text)
    /\ UNCHANGED <<ctx_obj, channels, sys_stdout, sys_stderr, sends, last, nid>>
    /\ UNCHANGED <<rvars, parser>>

\* the wrapped function ends (line 59, or lines 72-79)
FuncEnd ==
    /\ stack # <<>>
    /\ stack[Len(stack)].pc = "body"
    /\ \E how \in FuncEnds :
         LET f == [stack[Len(stack)] EXCEPT !.todo = <<>>]
         IN  /\ f.pending # "none" => how = f.pending
             /\ f.pending = "none" => stack[Len(stack)].todo = <<>>
             /\ IF ~f.redirect
                THEN /\ stack' = Leave(stack, f, how)
                     /\ last' = Ended([f EXCEPT !.func_end = how], 1, how,
                                      FuncValue(how), sys_stdout, sys_stderr)
                ELSE /\ stack' = [stack EXCEPT ![Len(stack)] = AfterFunc(f, how)]
                     /\ last' = last
    /\ UNCHANGED <<ctx_obj, channels, sys_stdout, sys_stderr, console, sends, nid>>
    /\ UNCHANGED <<rvars, parser>>

\* finally: the streams are restored and the captured text is printed
\* (lines 82-90)
WrapperFinally ==
    /\ stack # <<>>
    /\ stack[Len(stack)].pc = "finally"
    /\ LET f == stack[Len(stack)]
           out == Restored(f)[1]
       IN  /\ sys_stdout' = out
           /\ sys_stderr' = Restored(f)[2]
           /\ console' = OnConsole(console, out, f.captured)
           /\ stack' = InStack([stack EXCEPT ![Len(stack)].pc = "notify"],
                               out, f.captured)
    /\ UNCHANGED <<ctx_obj, channels, sends, last, nid>>
    /\ UNCHANGED <<rvars, parser>>

\* finally, continued: the notification (lines 93-120) and the way out
\* (line 100 or line 122)
WrapperNotify ==
    /\ stack # <<>>
    /\ stack[Len(stack)].pc = "notify"
    /\ \E how \in NotifyOutcomes :
         LET f == stack[Len(stack)]
             n == Notification(f, channels, how)
             msgs == [i \in 1..Len(n.echo) |-> Chunk(f.id, n.echo[i])]
             end == WrapperEnd(f, n.leaves)
         IN  /\ n.attempts = <<>> => how = "sent"
             /\ console' = OnConsole(console, sys_stderr, msgs)
             /\ sends' = sends \o n.attempts
             /\ stack' = Leave(InStack(stack, sys_stderr, msgs), f, end)
             /\ last' = Ended(f, 1, end, WrapperValue(f, n.leaves),
                              sys_stdout, sys_stderr)
    /\ UNCHANGED <<ctx_obj, channels, sys_stdout, sys_stderr, nid>>
    /\ UNCHANGED <<rvars, parser>>

WrapNext ==
    \/ WrapperEnter
    \/ FuncWrite
    \/ FuncEnd
    \/ WrapperFinally
    \/ WrapperNotify

WrapSpec == WrapInit /\ [][WrapNext]_vars

(* ------------------------------ the date parser on its own ------------ *)

\* prefixes the parser is called with: a plain one and one that itself ends
\* in a dash and two digits
ParsePrefixes == {PrefixP, <<"p", "-", "2", "4">>}

\* the numbers the digit groups of a name spell: years around the leap-year
\* rules and both ends of datetime's range, months and days inside and
\* outside the calendar
FullYears == {0, 1, 1900, 2000, 2023, 2024, 2100, 9999}

ShortYears == {0, 24, 99}

Months == {0, 1, 2, 4, 12, 13, 99}

Days == {0, 1, 28, 29, 30, 31, 32, 40}

\* prefix-YYYY-MM-DD
FullName(prefix, y, m, d) ==
    prefix \o Dash \o Fmt4(y) \o Dash \o Fmt2(m) \o Dash \o Fmt2(d)

\* prefix-YY-MM
ShortName(prefix, y, m) == prefix \o Dash \o Fmt2(y) \o Dash \o Fmt2(m)

\* names of neither form: a four-digit year with a month only, a letter in
\* a digit group, a missing dash, another prefix, text after the date
OtherNames(prefix) ==
    {prefix \o Dash \o Fmt4(2024) \o Dash \o Fmt2(11),
     prefix \o Dash \o <<"2", "x">> \o Dash \o Fmt2(11),
     prefix \o Fmt2(24) \o Dash \o Fmt2(11),
     <<"x">> \o prefix \o Dash \o Fmt2(24) \o Dash \o Fmt2(11),
     prefix \o Dash \o Fmt2(24) \o Dash \o Fmt2(11) \o <<"x">>,
     prefix}

ParseInput(form, prefix, name, y, m, d) ==
    [NoParse EXCEPT !.pc = "called", !.form = form, !.prefix = prefix,
                    !.name = name, !.y = y, !.m = m, !.d = d]

ParseInputs ==
    {ParseInput("full", px, FullName(px, y, m, d), y, m, d) :
        px \in ParsePrefixes, y \in FullYears, m \in Months, d \in Days}
    \cup {ParseInput("short", px, ShortName(px, y, m), y, m, 0) :
            px \in ParsePrefixes, y \in ShortYears, m \in Months}
    \cup UNION {{ParseInput("other", px, nm, 0, 0, 0) : nm \in OtherNames(px)} :
                  px \in ParsePrefixes}

ParseInit ==
    /\ remote = <<>>
    /\ today = MkDate(2026, 11, 1)
    /\ nextId = MaxAccounts + 1
    /\ pc = "shell"
    /\ unit = NoUnit(NoCfg)
    /\ status = "none"
    /\ batch = NoBatch
    /\ ctx_obj = Settings(Unset, Unset)
    /\ channels = {}
    /\ WrapperIdle
    /\ parser \in ParseInputs

\* _parse_service_account_date(name, prefix) returns (lines 48-73)
ParseServiceAccountDate ==
    /\ parser.pc = "called"
    /\ parser' = [parser EXCEPT !.pc = "returned",
                                !.date = ParseDate(parser.name, parser.prefix)]
    /\ UNCHANGED <<rvars, wvars>>

ParseSpec == ParseInit /\ [][ParseServiceAccountDate]_vars

(* ------------------------------ claims -------------------------------- *)

CallsOfKind(u, kind) == SelectSeq(u.calls, LAMBDA c : c.kind = kind)

NCreate(u) == Len(CallsOfKind(u, "create"))

NDelete(u) == Len(CallsOfKind(u, "delete"))

\* the ids of a list of accounts, candidates or calls, in order
Ids(lst) == [i \in 1..Len(lst) |-> lst[i].id]

AllCallsOk(u) == \A i \in 1..Len(u.calls) : u.calls[i].outcome = "ok"

\* a unit of the given kinds has run on a listing that succeeded
Ran(ops) == pc \in {"done", "batch_unit"} /\ unit.cfg.op \in ops /\ unit.listed

\* dry_run as the invocation was given it
InvokedDryRun ==
    IF unit.cfg.op \in {"batch_create", "batch_cleanup"}
    THEN batch.dry_run ELSE unit.cfg.dry_run

\* the single match of the snapshot carries the name Execute would create
OneMatchNamedToday ==
    /\ Ran({"execute"})
    /\ ~unit.cfg.dry_run
    /\ Len(unit.matching) = 1
    /\ unit.matching[1].name = unit.new_sa_name

\* C1: Execute without dry_run on a snapshot whose only match carries
\* today's expected name issues no create call and no delete call.
C1_NoCallsOnNameCollision ==
    OneMatchNamedToday => NCreate(unit) = 0 /\ NDelete(unit) = 0

OneOlderMatch ==
    /\ Ran({"execute"})
    /\ ~unit.cfg.dry_run
    /\ AllCallsOk(unit)
    /\ Len(unit.matching) = 1
    /\ DateLess(unit.matching[1].date, today)

\* C2: Execute without dry_run, every call succeeding, on a snapshot whose
\* only match has a parsed date before today issues one create call and one
\* delete call, for that match, and one matching account remains.
C2_ReplacesOneOlderMatch ==
    OneOlderMatch =>
        /\ NCreate(unit) = 1
        /\ Ids(CallsOfKind(unit, "delete")) = <<unit.matching[1].id>>
        /\ Len(FindMatching(remote, unit.cfg.prefix)) = 1

SeveralMatches ==
    /\ Ran({"execute"})
    /\ ~unit.cfg.dry_run
    /\ AllCallsOk(unit)
    /\ Len(unit.matching) >= 2

\* C3: Execute without dry_run, every call succeeding, on a snapshot of two
\* or more matches issues a create call exactly when no match carries
\* today's expected name, and delete calls for exactly the matches after the
\* first of the resolved list, whose parsed date no other match exceeds.
C3_KeepsNewestOfSeveral ==
    SeveralMatches =>
        /\ NCreate(unit) = (IF \E i \in 1..Len(unit.matching) :
                                 unit.matching[i].name
                                   = NewSaName(unit.cfg.prefix, unit.cfg.date_fmt, today)
                            THEN 0 ELSE 1)
        /\ Ids(CallsOfKind(unit, "delete")) = Tail(Ids(unit.matching))
        /\ \A i \in 1..Len(unit.matching) :
              ~DateLess(unit.matching[1].date, unit.matching[i].date)

C3_Witness ==
    /\ SeveralMatches
    /\ Len(unit.matching) < Len(unit.snapshot)
    /\ unit.created
    /\ NDelete(unit) >= 1

NoMatches ==
    /\ Ran({"execute"})
    /\ ~unit.cfg.dry_run
    /\ unit.matching = <<>>

\* C4: Execute without dry_run on a snapshot without matches issues exactly
\* one create call and no delete call.
C4_CreatesOnEmptySet ==
    NoMatches => NCreate(unit) = 1 /\ NDelete(unit) = 0

C4_Witness ==
    /\ NoMatches
    /\ unit.snapshot # <<>>
    /\ unit.created
    /\ unit.end = "return"

\* C5: in rotation create and in the batch create helper, when a match
\* already carries today's expected name no create call is issued and the
\* unit reports a skip.
C5_CreateSkipsExistingName ==
    (/\ Ran({"create", "batch_create"})
     /\ \E i \in 1..Len(unit.matching) :
           unit.matching[i].name
             = NewSaName(unit.cfg.prefix, unit.cfg.date_fmt, today))
    => NCreate(unit) = 0 /\ unit.skipped

\* a cleanup that was neither a dry run nor cancelled at the prompt
CleanupRan ==
    /\ Ran({"cleanup", "batch_cleanup"})
    /\ ~InvokedDryRun
    /\ ~unit.cancelled

\* C6: cleanup with keep_latest = k, for every integer k the option accepts,
\* every call succeeding, on n > k matches, n >= 1, issues delete calls for
\* exactly the last n - k entries of the newest-first list and for none of
\* the first k.
C6_DeletesAllButNewestK ==
    (/\ CleanupRan
     /\ AllCallsOk(unit)
     /\ unit.matching # <<>>
     /\ Len(unit.matching) > unit.cfg.keep_latest) =>
        LET n == Len(unit.matching)
            k == unit.cfg.keep_latest
        IN  /\ NDelete(unit) = n - k
            /\ Ids(CallsOfKind(unit, "delete"))
                 = Ids([i \in 1..(n - k) |-> unit.matching[k + i]])

FewMatches ==
    /\ Ran({"cleanup", "batch_cleanup"})
    /\ Len(unit.matching) <= unit.cfg.keep_latest

\* C7: cleanup on n <= keep_latest matches issues no delete call, reports
\* that there is nothing to clean up, and returns.
C7_NothingToCleanup ==
    FewMatches => NDelete(unit) = 0 /\ unit.nothing /\ unit.end = "return"

C7_Witness ==
    /\ FewMatches
    /\ ~InvokedDryRun
    /\ Len(unit.matching) = unit.cfg.keep_latest
    /\ Len(unit.matching) >= 1

\* C8: in the delete loops of cleanup, batch cleanup and Execute, a delete
\* call that fails does not keep the calls for the remaining members of the
\* delete set from being issued.
C8_DeleteFailureDoesNotAbort ==
    (/\ Ran({"cleanup", "batch_cleanup", "execute"})
     /\ ~InvokedDryRun
     /\ ~unit.cancelled)
    => Ids(CallsOfKind(unit, "delete")) = Ids(unit.to_delete)

\* C9: with dry_run set, Create, Cleanup, Execute and the batch helpers
\* issue no create call and no delete call.
C9_DryRunIssuesNoMutation ==
    (pc \in {"done", "batch_unit"} /\ InvokedDryRun) =>
        NCreate(unit) = 0 /\ NDelete(unit) = 0

C9_Witness ==
    /\ Ran({"execute", "batch_cleanup"})
    /\ InvokedDryRun
    /\ unit.to_delete # <<>>
    /\ (unit.cfg.op = "execute" => ~unit.skipped)

\* the keys of a batch file that reach the helper: their group has a project
\* id and they have a name
Processable(rotations) ==
    {pos \in UNION {{<<g, k>> : k \in 1..Len(rotations[g].keys)} :
                        g \in 1..Len(rotations)} :
        /\ rotations[pos[1]].project_id # ""
        /\ rotations[pos[1]].keys[pos[2]].name # <<>>}

Attempted(b) == {<<b.attempted[i].g, b.attempted[i].k>> : i \in 1..Len(b.attempted)}

Failed(b) == {<<b.failed[i].g, b.failed[i].k>> : i \in 1..Len(b.failed)}

\* C10: in Execute a failed create call is followed by no delete call; in
\* batch create a failed create is recorded against its key and the keys
\* after it are still processed.
C10_CreateFailureAbortsUnitOnly ==
    /\ (Ran({"execute"}) /\ FirstFailure(unit) = "create") => NDelete(unit) = 0
    /\ (pc = "done" /\ batch.action = "create") =>
         \A i \in 1..Len(batch.attempted) :
            batch.attempted[i].what = "create" =>
               /\ <<batch.attempted[i].g, batch.attempted[i].k>> \in Failed(batch)
               /\ Processable(batch.rotations) \subseteq Attempted(batch)

\* rotation batch went into its loops and the process has ended
BatchRan ==
    /\ pc = "done"
    /\ batch.action # "none"
    /\ batch.rotations # <<>>
    /\ ~batch.cancelled

Succeeded(b) == {<<b.success[i].g, b.success[i].k>> : i \in 1..Len(b.success)}

\* C11: in a batch in which a REST call of some key fails, every key that
\* reaches the helper is attempted, each key with a failed call is in the
\* failed list and every other attempted key is in the success list.
C11_BatchNeverAborts ==
    (BatchRan /\ batch.faults >= 1) =>
        /\ Processable(batch.rotations) \subseteq Attempted(batch)
        /\ \A i \in 1..Len(batch.attempted) :
              LET e == batch.attempted[i]
              IN  IF e.what # "ok" THEN <<e.g, e.k>> \in Failed(batch)
                  ELSE <<e.g, e.k>> \in Succeeded(batch)

\* the groups without a project id and the keys without a name that the
\* loops have passed
PassedBadEntries(b) ==
    {Entry(g, 0, "Missing project_id") :
        g \in {h \in 1..Len(b.rotations) :
                 h < b.g /\ b.rotations[h].project_id = ""}}
    \cup
    {Entry(pos[1], pos[2], "Missing name") :
        pos \in {q \in UNION {{<<g, k>> : k \in 1..Len(b.rotations[g].keys)} :
                                g \in 1..Len(b.rotations)} :
                   /\ b.rotations[q[1]].project_id # ""
                   /\ b.rotations[q[1]].keys[q[2]].name = <<>>
                   /\ (q[1] < b.g \/ (q[1] = b.g /\ q[2] < b.k))}}

Recorded(b) ==
    {b.failed[i] : i \in 1..Len(b.failed)} \cup {b.skipped[i] : i \in 1..Len(b.skipped)}

\* the entry the loops of the batch are at lacks its project id or its name
AtBadEntry ==
    /\ pc = "batch"
    /\ batch.g <= Len(batch.rotations)
    /\ \/ batch.k = 0 /\ batch.rotations[batch.g].project_id = ""
       \/ batch.k > 0 /\ batch.rotations[batch.g].keys[batch.k].name = <<>>

\* C12: a group without project_id and a key without name are recorded as
\* failed or skipped, are never handed to a helper, the step that passes
\* them issues no REST call, and a batch whose calls all succeed still
\* attempts every key that has a project id and a name.
C12_BadEntriesAreRecorded ==
    /\ [](/\ PassedBadEntries(batch) \subseteq Recorded(batch)
          /\ \A e \in PassedBadEntries(batch) : <<e.g, e.k>> \notin Attempted(batch)
          /\ (BatchRan /\ batch.faults = 0) =>
                Processable(batch.rotations) \subseteq Attempted(batch))
    /\ [][AtBadEntry => (/\ remote' = remote
                         /\ unit' = unit
                         /\ nextId' = nextId
                         /\ pc' = "batch")]_vars

C12_Witness ==
    /\ BatchRan
    /\ status = "0"
    /\ \E e \in PassedBadEntries(batch) : e.k = 0
    /\ \E e \in PassedBadEntries(batch) :
          e.k > 0 /\ \E a \in Attempted(batch) : a[1] = e.g /\ a[2] > e.k

\* the listing call of the unit failed
ListFailed(u) ==
    /\ u.calls # <<>>
    /\ u.calls[1].kind = "list"
    /\ u.calls[1].outcome # "ok"

\* C13: a unit whose listing call fails issues no create call and no delete
\* call and does not complete; in a batch the failure is recorded against
\* its key and the keys after it are processed.
C13_ListFailureAbortsUnitOnly ==
    /\ (pc \in {"done", "batch_unit"} /\ ListFailed(unit)) =>
          /\ NCreate(unit) = 0
          /\ NDelete(unit) = 0
          /\ unit.end # "return"
    /\ BatchRan =>
          \A i \in 1..Len(batch.attempted) :
             batch.attempted[i].what = "list" =>
                /\ <<batch.attempted[i].g, batch.attempted[i].k>> \in Failed(batch)
                /\ Processable(batch.rotations) \subseteq Attempted(batch)

\* C14: in the delete loops of rotation cleanup and rotation execute an
\* item whose delete call answers not-found is reported as deleted: the
\* items reported deleted are those whose call succeeded or found nothing.
C14_NotFoundCountsAsDeleted ==
    (/\ Ran({"cleanup", "execute"})
     /\ ~unit.cfg.dry_run
     /\ unit.cfg.keep_latest >= 0) =>
        unit.deleted =
            Cardinality({i \in 1..Len(unit.calls) :
                            /\ unit.calls[i].kind = "delete"
                            /\ unit.calls[i].outcome \in {"ok", "not_found"}})

\* C15: rotation create, cleanup and execute end with a non-zero status
\* only when project id or prefix is missing or the listing call failed.
C15_NonZeroOnlyBeforeMutation ==
    (/\ pc = "done"
     /\ unit.cfg.op \in {"create", "cleanup", "execute"}
     /\ status # "0")
    => (MissingParameter(unit.cfg) \/ ListFailed(unit))

\* how often chunk c occurs in a sequence of chunks
Count(chunks, c) == Cardinality({i \in 1..Len(chunks) : chunks[i] = c})

Chunks(chunks) == {chunks[i] : i \in 1..Len(chunks)}

\* the delivery attempts made by invocation id
SendsBy(id) == {i \in 1..Len(sends) : sends[i].by = id}

\* a wrapper invocation with recipient and channel set has ended
ConfiguredEnded == last.id # 0 /\ last.redirect

\* C16: a wrapped command with recipient and channel set, the channel being
\* available, however it ends: exactly one delivery attempt is made, tagged
\* success when the command returned and failure otherwise, and once the
\* outermost invocation has ended each piece of captured text is on the
\* terminal exactly once.
C16_OneReplayOneDelivery ==
    (ConfiguredEnded /\ last.notify_channel \in channels) =>
        /\ Cardinality(SendsBy(last.id)) = 1
        /\ \A i \in SendsBy(last.id) :
              sends[i].tag = (IF last.func_end = "return" THEN "success"
                              ELSE "failure")
        /\ stack = <<>> =>
              \A c \in Chunks(last.captured) :
                 Count(console, c) = Count(last.captured, c)

\* exactly one of recipient and channel was present after resolution
OneOfTwo == last.id # 0 /\ (last.notify_user = Unset) # (last.notify_channel = Unset)

\* C17: with exactly one of recipient and channel present after resolution
\* the wrapper reports a usage error, leaves through ctx.exit(1) and never
\* calls the wrapped function.
C17_UsageErrorBeforeCommand ==
    OneOfTwo =>
        /\ last.invoked = 0
        /\ last.end = "raise"
        /\ last.value = "Exit"
        /\ \/ Chunk(last.id, "usage") \in Chunks(console)
           \/ \E i \in 1..Len(stack) :
                 Chunk(last.id, "usage") \in Chunks(stack[i].captured)

C17_Witness ==
    /\ OneOfTwo
    /\ last.notify_channel # Unset
    /\ last.invoked = 0

\* recipient and channel were both unset
NeitherSet == last.id # 0 /\ last.notify_user = Unset /\ last.notify_channel = Unset

\* C18: with recipient and channel both unset the wrapper calls the function
\* once, redirects nothing, attempts no delivery and ends as the function
\* ended, with its value; what the function of an outermost invocation
\* wrote is on the terminal exactly once.
C18_PassthroughWhenUnset ==
    /\ NeitherSet =>
          /\ last.invoked = 1
          /\ ~last.redirect
          /\ last.captured = <<>>
          /\ last.after = last.before
          /\ SendsBy(last.id) = {}
          /\ last.end = last.func_end
          /\ last.value = last.func_value
          /\ (stack = <<>> /\ last.inner = {}) =>
                Cardinality({i \in 1..Len(console) : console[i].by = last.id})
                  = last.wrote
    /\ \A i \in 1..Len(stack) :
          (stack[i].notify_user = Unset /\ stack[i].notify_channel = Unset) =>
              /\ ~stack[i].redirect
              /\ i = Len(stack) =>
                    (sys_stdout = stack[i].old_stdout /\ sys_stderr = stack[i].old_stderr)

C18_Witness ==
    /\ NeitherSet
    /\ stack = <<>>
    /\ last.wrote >= 1
    /\ last.func_end = "raise"

\* C19: a wrapped function that returns r with notification configured
\* makes the wrapper return r, whatever becomes of the notification.
C19_NotificationNeverAltersResult ==
    (ConfiguredEnded /\ last.func_end = "return") =>
        /\ last.end = "return"
        /\ last.value = "r"

C19_Witness ==
    /\ ConfiguredEnded
    /\ last.func_end = "return"
    /\ Cardinality(SendsBy(last.id)) = 1
    /\ Chunk(last.id, "notify_error") \in Chunks(console)

\* C20 as stated: sys.stdout and sys.stderr are bound after an invocation as
\* they were before it, and no text captured in one invocation is in the
\* captured output of another.
C20_NoSharedCapturedText ==
    /\ last.id # 0 => last.after = last.before
    /\ \A i \in 1..Len(stack) :
          (last.id # 0 /\ last.id # stack[i].id) =>
              Chunks(last.captured) \cap Chunks(stack[i].captured) = {}

\* the invocations that run or ran nested inside the i-th one in progress
NestedIn(i) ==
    stack[i].inner
    \cup {stack[j].id : j \in (i + 1)..Len(stack)}
    \cup UNION {stack[j].inner : j \in (i + 1)..Len(stack)}

\* C20: on every way out of the wrapper sys.stdout and sys.stderr are bound
\* as they were on entry, and are the terminal when no invocation is in
\* progress; the captured output of an invocation holds only text of that
\* invocation and of invocations that ran nested inside it.
C20_ScopedRedirect ==
    /\ last.id # 0 => last.after = last.before
    /\ stack = <<>> =>
          (sys_stdout = Tty("stdout") /\ sys_stderr = Tty("stderr"))
    /\ \A i \in 1..Len(stack) :
          /\ \A c \in Chunks(stack[i].captured) :
                c.by \in {stack[i].id} \cup NestedIn(i)
          /\ (last.id # 0 /\ last.id \notin NestedIn(i)) =>
                Chunks(last.captured) \cap Chunks(stack[i].captured) = {}
    /\ \A c \in Chunks(last.captured) : c.by \in {last.id} \cup last.inner

C20_Witness ==
    /\ stack # <<>>
    /\ last.id \in stack[Len(stack)].inner
    /\ last.redirect
    /\ last.func_end = "exit"
    /\ last.captured # <<>>
    /\ stack[Len(stack)].redirect
    /\ Chunks(last.captured) \subseteq Chunks(stack[Len(stack)].captured)

\* the step is a run of rotation create or of the batch's create helper
CreateStep ==
    \/ pc = "shell" /\ pc' = "done" /\ unit'.cfg.op = "create"
    \/ pc = "batch" /\ pc' = "batch_unit" /\ unit'.cfg.op = "batch_create"

\* the accounts of a listing, as a set
Accounts(lst) == {lst[i] : i \in 1..Len(lst)}

\* C21: rotation create and the batch's create helper issue no delete call,
\* and every account the project held before the run is still there after
\* it, under every snapshot, configuration and failure.
C21_CreateNeverDeletes ==
    [][CreateStep =>
          /\ NDelete(unit') = 0
          /\ Accounts(remote) \subseteq Accounts(remote')]_vars

C21_Witness ==
    /\ Ran({"create", "batch_create"})
    /\ unit.created
    /\ unit.matching # <<>>
    /\ Accounts(unit.snapshot) \subseteq Accounts(remote)

\* a unit has resolved its rotation set from a listing
Resolved == pc \in {"done", "batch_unit"} /\ unit.listed

\* the accounts of the unit's listing whose name the parser accepts
Accepted(u) ==
    {sa \in Accounts(u.snapshot) : ParseDate(sa.name, u.cfg.prefix) # NoDate}

\* position of the account with this id in the unit's listing
PlaceOf(u, id) == CHOOSE i \in 1..Len(u.snapshot) : u.snapshot[i].id = id

\* C22: the resolver's output holds, once each, exactly the accounts of its
\* input for which the date parser returns a date under the prefix, each
\* with that date, and no entry is older than the entry after it.
C22_ResolverContentAndOrder ==
    Resolved =>
        /\ Len(unit.matching) = Cardinality(Accepted(unit))
        /\ {[id |-> unit.matching[i].id, name |-> unit.matching[i].name] :
                i \in 1..Len(unit.matching)} = Accepted(unit)
        /\ \A i \in 1..Len(unit.matching) :
              unit.matching[i].date = ParseDate(unit.matching[i].name, unit.cfg.prefix)
        /\ \A i \in 1..(Len(unit.matching) - 1) :
              ~DateLess(unit.matching[i].date, unit.matching[i + 1].date)

C22_Witness ==
    /\ Resolved
    /\ Accounts(unit.snapshot) # Accepted(unit)
    /\ Len(unit.matching) >= 2
    /\ DateLess(unit.matching[2].date, unit.matching[1].date)
    /\ PlaceOf(unit, unit.matching[2].id) < PlaceOf(unit, unit.matching[1].id)

\* C23: two candidates of the resolver's output with equal parsed dates are
\* in the order they had in the input list.
C23_ResolverIsStable ==
    Resolved =>
        \A i, j \in 1..Len(unit.matching) :
            (i < j /\ unit.matching[i].date = unit.matching[j].date) =>
                PlaceOf(unit, unit.matching[i].id) < PlaceOf(unit, unit.matching[j].id)

C23_Witness ==
    /\ Resolved
    /\ Len(unit.matching) >= 2
    /\ unit.matching[1].date = unit.matching[2].date
    /\ unit.matching[1].name # unit.matching[2].name
    /\ Len(unit.matching[1].name) < Len(unit.matching[2].name)

\* the days of a month of the proleptic Gregorian calendar
CalendarDays(y, m) ==
    IF m \in {1, 3, 5, 7, 8, 10, 12} THEN 31
    ELSE IF m \in {4, 6, 9, 11} THEN 30
    ELSE IF (y % 4 = 0 /\ y % 100 # 0) \/ y % 400 = 0 THEN 29
    ELSE 28

\* year y, month m and day d name a calendar date datetime can hold
IsCalendarDate(y, m, d) ==
    /\ y >= 1 /\ y <= 9999
    /\ m >= 1 /\ m <= 12
    /\ d >= 1 /\ d <= CalendarDays(y, m)

\* the parser has returned from a name of the given form
Parsed(form) == parser.pc = "returned" /\ parser.form = form

\* C24: for a name prefix-YYYY-MM-DD the parser returns exactly that date
\* when it is a calendar date, and no date otherwise.
C24_FullDateRoundTrip ==
    Parsed("full") =>
        parser.date = (IF IsCalendarDate(parser.y, parser.m, parser.d)
                       THEN MkDate(parser.y, parser.m, parser.d)
                       ELSE NoDate)

C24_Witness ==
    /\ Parsed("full")
    /\ parser.date = MkDate(2024, 2, 29)
    /\ Len(parser.prefix) > 1

C24_WitnessInvalid ==
    /\ Parsed("full")
    /\ parser.y = 2100 /\ parser.m = 2 /\ parser.d = 29
    /\ parser.date = NoDate

\* C25 as stated: for every name prefix-YY-MM of two digits each the parser
\* returns the first day of month MM of year 2000+YY.
C25_ShortDateAnyDigits ==
    Parsed("short") => parser.date = MkDate(2000 + parser.y, parser.m, 1)

\* C25: for a name prefix-YY-MM the parser returns the first day of month MM
\* of year 2000+YY when MM is one of 01..12, and no date otherwise.
C25_ShortDateFirstOfMonth ==
    Parsed("short") =>
        parser.date = (IF parser.m >= 1 /\ parser.m <= 12
                       THEN MkDate(2000 + parser.y, parser.m, 1)
                       ELSE NoDate)

C25_Witness ==
    /\ Parsed("short")
    /\ parser.date = MkDate(2099, 12, 1)

\* a real run of rotation execute in which every REST call succeeded
ExecuteSucceeded ==
    /\ pc = "done"
    /\ unit.cfg.op = "execute"
    /\ ~unit.cfg.dry_run
    /\ unit.listed
    /\ AllCallsOk(unit)

\* C26: after a real run of rotation execute in which every REST call
\* succeeded the project holds at least one account the parser accepts for
\* the prefix, whatever the snapshot, the date format and the day.
C26_ExecuteLeavesAKey ==
    ExecuteSucceeded =>
        \E sa \in Accounts(remote) : ParseDate(sa.name, unit.cfg.prefix) # NoDate

\* the id the server gave the account of the flow's create step
FlowCreatedId == MaxAccounts + 1

\* rotation create succeeded, and the later rotation cleanup --keep-latest 1
\* ran for real and every call of it succeeded
FlowSucceeded ==
    /\ pc = "done"
    /\ nextId = FlowCreatedId + 1
    /\ unit.cfg.op = "cleanup"
    /\ unit.cfg.keep_latest = 1
    /\ ~unit.cfg.dry_run
    /\ unit.listed
    /\ ~unit.cancelled
    /\ AllCallsOk(unit)

\* the account the create step made is in the cleanup's listing and no other
\* account of the listing carries its name
CreatedNameIsNew ==
    \E sa \in Accounts(unit.snapshot) :
        /\ sa.id = FlowCreatedId
        /\ \A other \in Accounts(unit.snapshot) :
              other.name = sa.name => other = sa

\* C27: after a successful rotation create and a later successful rotation
\* cleanup --keep-latest 1 exactly one matching account remains, the one
\* the create made, whatever the project held before (here: whenever the
\* create did not repeat a name the project already held).
C27_CleanupKeepsCreatedKey ==
    (FlowSucceeded /\ CreatedNameIsNew) =>
        {sa.id : sa \in {a \in Accounts(remote) :
                            ParseDate(a.name, unit.cfg.prefix) # NoDate}}
            = {FlowCreatedId}

\* a unit of rotation cleanup, of the batch's cleanup helper or of rotation
\* execute has made its listing
DeletingUnitRan ==
    Resolved /\ unit.cfg.op \in {"cleanup", "batch_cleanup", "execute"}

\* C28: every delete call of rotation cleanup, of the batch's cleanup helper
\* and of rotation execute names the id of an account of the unit's own
\* listing whose name the parser accepts for the prefix; an account the
\* parser rejects, or one the unit created itself, is never deleted.
C28_DeletesOnlyListedMatches ==
    DeletingUnitRan =>
        /\ \A i \in 1..Len(unit.calls) :
              unit.calls[i].kind = "delete" =>
                  /\ \E sa \in Accepted(unit) : sa.id = unit.calls[i].id
                  /\ unit.created => unit.calls[i].id # nextId - 1
        /\ (Accounts(unit.snapshot) \ Accepted(unit)) \subseteq Accounts(remote)
        /\ unit.created => \E sa \in Accounts(remote) : sa.id = nextId - 1

C28_Witness ==
    /\ DeletingUnitRan
    /\ unit.created
    /\ NDelete(unit) >= 1
    /\ Accounts(unit.snapshot) # Accepted(unit)

\* C29: a wrapped command ends for its caller as its function ended, with
\* the same value or exception, when recipient and channel are configured
\* just as when they are not.
C29_ConfiguredOutcomeIsTheFunctions ==
    ConfiguredEnded =>
        /\ last.end = last.func_end
        /\ last.value = last.func_value

\* a unit that creates keys ran as a dry run
DryRunCreateRan ==
    /\ Ran({"create", "execute", "batch_create"})
    /\ unit.cfg.dry_run

\* C30: a dry run of rotation create, of rotation execute or of the batch's
\* create helper hands no message to the notifier, and no message that is
\* handed to it carries the placeholder credential.
C30_DryRunNeverNotifies ==
    /\ DryRunCreateRan => unit.notified = <<>>
    /\ \A i \in 1..Len(unit.notified) : unit.notified[i].key # DummyKey

C30_Witness ==
    /\ DryRunCreateRan
    /\ unit.cfg.notify_user # Unset
    /\ unit.new_api_key_value = DummyKey
    /\ unit.end = "return"

\* a real run of a unit that creates keys has notified the configured user
C30_WitnessRealRun ==
    /\ Ran({"create", "execute", "batch_create"})
    /\ ~unit.cfg.dry_run
    /\ Len(unit.notified) = 1
    /\ unit.notified[1].key = RealKey

====
